---- MODULE Spec2Model ----
(***************************************************************************)
(* Model of feynman-multiplicity.py: the vertex/line data model, the       *)
(* level-by-level growth search of main(), and the structural filters.     *)
(*                                                                         *)
(* Conventions.  Python lists are sequences; list indices are 1-based      *)
(* here (Python index i is i+1), and start_index = 0 stands for Python's   *)
(* start_index = -1 ("no unsaturated vertex").  A Line object is           *)
(* identified by its position in its diagram's line list (deepcopy keeps   *)
(* the object graph, so identity within a diagram is all that matters);    *)
(* Vertex.lines is the Python set of those identities.  A vertex           *)
(* reference held by a Line is the vertex's index in Diagram.vertices.     *)
(***************************************************************************)
EXTENDS Integers, Sequences, FiniteSets, Bags, TLC

(* ------------------------------ bounds --------------------------------- *)
MaxIn == 1
MaxOut == 1
MaxTypes == 2
MaxCap == 3
MaxOrder == 2
(* largest total slot count of a seed diagram *)
MaxSlots == 8

(* momenta_in and momenta_out are the lengths of the two label lists and  *)
(* vertex_types the sequence of the catalog's arities (a type's label is   *)
(* its position).  The three filter switches are read by the filter stage  *)
(* only; switches holds them from the moment that stage reads them and is  *)
(* <<>> before.                                                             *)
VARIABLES momenta_in, momenta_out, vertex_types, perturbation_order,
          switches, diagram_lists, iteration, iter_flag, filtered_diagrams, pc

config == <<momenta_in, momenta_out, vertex_types, perturbation_order>>
vars == <<momenta_in, momenta_out, vertex_types, perturbation_order,
          switches, diagram_lists, iteration, iter_flag, filtered_diagrams, pc>>

(* ------------------------------ helpers -------------------------------- *)
RECURSIVE SetToSortedSeq(_)
SetToSortedSeq(S) ==
    IF S = {} THEN <<>>
    ELSE LET m == CHOOSE x \in S : \A y \in S : x <= y
         IN <<m>> \o SetToSortedSeq(S \ {m})

(* ------------------------------ Vertex --------------------------------- *)
Vertex(total_connections, kind, label) ==
    [total_connections |-> total_connections, lines |-> {},
     kind |-> kind, label |-> label]

InVertex(total_connections, momentum) == Vertex(total_connections, "in", momentum)

OutVertex(total_connections, momentum) == Vertex(total_connections, "out", momentum)

InternalVertex(total_connections, label) == Vertex(total_connections, "internal", label)

IsExternalVertex(vertex) == vertex.kind \in {"in", "out"}

Vertex_fully_connected(vertex) == Cardinality(vertex.lines) >= vertex.total_connections

(* variant: the weight is read after the line has been recorded *)
add_connection_weight_after(vertex, line, is_end_vertex) ==
    IF Vertex_fully_connected(vertex)
    THEN [vertex |-> vertex, ret |-> 0]
    ELSE LET added == [vertex EXCEPT !.lines = @ \cup {line}]
             multiplier == added.total_connections - Cardinality(added.lines)
         IN [vertex |-> added,
             ret |-> IF is_end_vertex THEN multiplier ELSE 1]

(* returns the vertex after the call and the returned weight *)
add_connection(vertex, line, is_end_vertex) ==
    IF Vertex_fully_connected(vertex)
    THEN [vertex |-> vertex, ret |-> 0]
    ELSE LET multiplier == vertex.total_connections - Cardinality(vertex.lines)
         IN [vertex |-> [vertex EXCEPT !.lines = @ \cup {line}],
             ret |-> IF is_end_vertex THEN multiplier ELSE 1]

(* ------------------------------- Line ---------------------------------- *)
Line(vertex_start, vertex_end) == [vertex_start |-> vertex_start, vertex_end |-> vertex_end]

(* variant: always the end vertex *)
other_vertex_always_end(line, vertex) == line.vertex_end

other_vertex(line, vertex) ==
    IF vertex = line.vertex_end THEN line.vertex_start ELSE line.vertex_end

(* ------------------------------ Diagram -------------------------------- *)
external_vertices ==
    [i \in 1..momenta_in |-> InVertex(1, i)] \o [i \in 1..momenta_out |-> OutVertex(1, i)]

RECURSIVE count_connections(_, _, _)
count_connections(vertices, k, count) ==
    IF k > Len(vertices) THEN count
    ELSE count_connections(vertices, k + 1, count + vertices[k].total_connections)

total_vertex_connections(vertices) == count_connections(vertices, 1, 0)

Diagram(internal_vertices) ==
    LET vertices == external_vertices \o internal_vertices
        connections == total_vertex_connections(vertices)
    IN [vertices |-> vertices,
        vertex_count |-> Len(vertices),
        is_valid |-> (connections % 2) = 0,
        iters_remaining |-> connections \div 2,
        lines |-> <<>>,
        multiplier |-> 1]

add_line(d, start_index, end_index) ==
    LET line == Len(d.lines) + 1
        r1 == add_connection(d.vertices[start_index], line, FALSE)
        v1 == [d.vertices EXCEPT ![start_index] = r1.vertex]
        r2 == add_connection(v1[end_index], line, TRUE)
        v2 == [v1 EXCEPT ![end_index] = r2.vertex]
    IN [d EXCEPT !.vertices = v2,
                 !.lines = Append(@, Line(start_index, end_index)),
                 !.multiplier = (@ * r1.ret) * r2.ret]

(* lowest index of a vertex that is not fully connected, 0 if none *)
find_start_index(d) ==
    LET open == {i \in 1..d.vertex_count : ~Vertex_fully_connected(d.vertices[i])}
    IN IF open = {} THEN 0 ELSE CHOOSE i \in open : \A j \in open : i <= j

(* variant: iters_remaining is decremented by two *)
iterate_child_decrement_two(d, start_index, end_index) ==
    LET diagram == add_line(d, start_index, end_index)
    IN IF diagram.multiplier > 0
       THEN <<[diagram EXCEPT !.iters_remaining = @ - 2]>>
       ELSE <<>>

(* variant: a child of multiplier 0 is kept *)
iterate_child_keep_zero(d, start_index, end_index) ==
    LET diagram == add_line(d, start_index, end_index)
    IN IF diagram.multiplier >= 0
       THEN <<[diagram EXCEPT !.iters_remaining = @ - 1]>>
       ELSE <<>>

(* variant: iters_remaining is not decremented *)
iterate_child_no_decrement(d, start_index, end_index) ==
    LET diagram == add_line(d, start_index, end_index)
    IN IF diagram.multiplier > 0 THEN <<diagram>> ELSE <<>>

(* the body of "for end_index in range(start_index, vertex_count)" *)
iterate_child(d, start_index, end_index) ==
    LET diagram == add_line(d, start_index, end_index)
    IN IF diagram.multiplier > 0
       THEN <<[diagram EXCEPT !.iters_remaining = @ - 1]>>
       ELSE <<>>

RECURSIVE iterate_for_loop(_, _, _, _)
iterate_for_loop(d, start_index, end_index, diagrams) ==
    IF end_index > d.vertex_count THEN diagrams
    ELSE iterate_for_loop(d, start_index, end_index + 1,
                          diagrams \o iterate_child(d, start_index, end_index))

(* variant: the candidates start after the pivot *)
iterate_skip_pivot(d) ==
    LET unfinished == d.iters_remaining > 0
        start_index == find_start_index(d)
    IN [unfinished |-> unfinished,
        diagrams |->
            IF unfinished
            THEN IF start_index >= 1
                 THEN iterate_for_loop(d, start_index, start_index + 1, <<>>)
                 ELSE <<>>
            ELSE <<d>>]

iterate(d) ==
    LET unfinished == d.iters_remaining > 0
        start_index == find_start_index(d)
    IN [unfinished |-> unfinished,
        diagrams |->
            IF unfinished
            THEN IF start_index >= 1
                 THEN iterate_for_loop(d, start_index, start_index, <<>>)
                 ELSE <<>>
            ELSE <<d>>]

(* ------------------------- order enumerator ---------------------------- *)
PrefixAll(i, rest) == [j \in 1..Len(rest) |-> <<i>> \o rest[j]] \o <<>>

(* itertools.combinations_with_replacement over catalog positions lo..n,  *)
(* in its lexicographic emission order                                     *)
RECURSIVE combinations_with_replacement(_, _, _)
RECURSIVE combinations_from(_, _, _)
combinations_from(n, order, i) ==
    IF i > n THEN <<>>
    ELSE PrefixAll(i, combinations_with_replacement(n, order - 1, i))
             \o combinations_from(n, order, i + 1)

combinations_with_replacement(n, order, lo) ==
    IF order = 0 THEN << <<>> >> ELSE combinations_from(n, order, lo)

internal_vertex_perms(order) ==
    combinations_with_replacement(Len(vertex_types), order, 1)

seed_diagram(vertex_perm) ==
    Diagram([j \in 1..Len(vertex_perm) |->
                InternalVertex(vertex_types[vertex_perm[j]], vertex_perm[j])] \o <<>>)

(* "for vertex_perm in internal_vertex_perms(order)" from position k on *)
RECURSIVE seed_perm_loop(_, _, _)
seed_perm_loop(perms, k, diagrams) ==
    IF k > Len(perms) THEN diagrams
    ELSE LET diagram == seed_diagram(perms[k])
         IN seed_perm_loop(perms, k + 1,
                IF diagram.is_valid THEN Append(diagrams, diagram) ELSE diagrams)

(* "for order in range(1 + perturbation_order)" *)
RECURSIVE seed_order_loop(_, _)
seed_order_loop(order, diagrams) ==
    IF order > perturbation_order THEN diagrams
    ELSE seed_order_loop(order + 1,
                         seed_perm_loop(internal_vertex_perms(order), 1, diagrams))

initial_diagrams == seed_order_loop(0, <<>>)

(* --------------------------- reachability ------------------------------ *)
line_sharing_vertices(d, vertex) ==
    {other_vertex(d.lines[l], vertex) : l \in d.vertices[vertex].lines}

(* vertex_list / diagram_list: list selected by flag ^ ((iteration & 1) == 1) *)
list_index(flag, iter) ==
    IF (iter % 2) = 1 THEN (1 - flag) + 1 ELSE flag + 1

(* the body of "for vertex in previous_vertices", from position k on; the  *)
(* neighbours of one vertex are visited in ascending index order           *)
RECURSIVE graph_for_loop(_, _, _, _, _, _)
graph_for_loop(d, previous_vertices, k, traversed_vertices, current_vertices, flag) ==
    IF k > Len(previous_vertices)
    THEN [traversed_vertices |-> traversed_vertices,
          current_vertices |-> current_vertices, iter_flag |-> flag]
    ELSE LET vertex == previous_vertices[k]
             traversed == traversed_vertices \cup {vertex}
             fresh == SetToSortedSeq(line_sharing_vertices(d, vertex) \ traversed)
         IN graph_for_loop(d, previous_vertices, k + 1, traversed,
                           current_vertices \o fresh, flag \/ fresh # <<>>)

RECURSIVE graph_while_loop(_, _, _, _)
graph_while_loop(d, vertex_lists, iter, traversed_vertices) ==
    LET previous_vertices == vertex_lists[list_index(0, iter)]
        current_vertices == vertex_lists[list_index(1, iter)]
        r == graph_for_loop(d, previous_vertices, 1, traversed_vertices,
                            current_vertices, FALSE)
        lists == [i \in 1..2 |-> IF i = list_index(0, iter) THEN <<>>
                                 ELSE r.current_vertices]
    IN IF r.iter_flag
       THEN graph_while_loop(d, lists, iter + 1, r.traversed_vertices)
       ELSE r.traversed_vertices

graph_connected_vertices(d, vertex) ==
    graph_while_loop(d, << <<vertex>>, <<>> >>, 0, {})

(* ------------------------------ filters -------------------------------- *)
has_one_vertex_loop(d) ==
    \E l \in 1..Len(d.lines) : d.lines[l].vertex_start = d.lines[l].vertex_end

has_vacuum_piece(d) ==
    \E vertex \in 1..Len(d.vertices) :
        ~ \E connected_vertex \in graph_connected_vertices(d, vertex) :
              IsExternalVertex(d.vertices[connected_vertex])

is_fully_connected(d) ==
    LET vertex_count == Len(d.vertices)
    IN IF vertex_count = 0 THEN FALSE
       ELSE Cardinality(graph_connected_vertices(d, 1)) = vertex_count

Switches == [normal_ordering : BOOLEAN, fully_connected : BOOLEAN,
             no_vacuum_pieces : BOOLEAN]

filter_valid(d, s) ==
    LET valid1 == IF s.normal_ordering THEN ~has_one_vertex_loop(d) ELSE TRUE
        valid2 == IF valid1 /\ s.fully_connected THEN is_fully_connected(d) ELSE valid1
        valid3 == IF valid2 /\ s.no_vacuum_pieces THEN ~has_vacuum_piece(d) ELSE valid2
    IN valid3

(* ------------------------------- main ---------------------------------- *)
diagram_list(flag) == diagram_lists[list_index(flag, iteration)]

Catalogs == UNION {[1..n -> 1..MaxCap] : n \in 0..MaxTypes}

(* total slot count of the largest seed the settings produce *)
LargestSeedSlots(n_in, n_out, types, order) ==
    LET arities == {types[i] : i \in DOMAIN types}
        widest == IF arities = {} THEN 0
                  ELSE CHOOSE a \in arities : \A b \in arities : b <= a
    IN n_in + n_out + order * widest

Init ==
    /\ momenta_in \in 0..MaxIn
    /\ momenta_out \in 0..MaxOut
    /\ vertex_types \in Catalogs
    /\ perturbation_order \in 0..MaxOrder
    /\ LargestSeedSlots(momenta_in, momenta_out, vertex_types, perturbation_order)
           <= MaxSlots
    /\ switches = <<>>
    /\ diagram_lists = <<initial_diagrams, <<>> >>
    /\ iteration = 0
    /\ iter_flag = TRUE
    /\ filtered_diagrams = <<>>
    /\ pc = "while"

(* "for diagram in previous_diagrams" over positions lo..hi: the diagrams *)
(* appended to current_diagrams, in list order (the range is halved to     *)
(* keep the evaluation depth small)                                         *)
RECURSIVE main_for_loop(_, _, _)
main_for_loop(previous_diagrams, lo, hi) ==
    IF lo > hi THEN <<>>
    ELSE IF lo = hi THEN iterate(previous_diagrams[lo]).diagrams
    ELSE main_for_loop(previous_diagrams, lo, (lo + hi) \div 2)
             \o main_for_loop(previous_diagrams, (lo + hi) \div 2 + 1, hi)

(* the flags or-ed into iter_flag by that loop *)
main_for_flag(previous_diagrams) ==
    \E k \in 1..Len(previous_diagrams) : iterate(previous_diagrams[k]).unfinished

(* one pass of the body of "while iter_flag" *)
GrowthRound ==
    /\ pc = "while"
    /\ iter_flag
    /\ iter_flag' = main_for_flag(diagram_list(0))
    /\ diagram_lists' = [i \in 1..2 |->
          IF i = list_index(0, iteration) THEN <<>>
          ELSE diagram_list(1)
                   \o main_for_loop(diagram_list(0), 1, Len(diagram_list(0)))]
    /\ iteration' = iteration + 1
    /\ UNCHANGED <<config, switches, filtered_diagrams, pc>>

(* "for diagram in all_diagrams": the diagrams appended to                *)
(* filtered_diagrams, in list order                                         *)
filter_loop(all_diagrams, s) ==
    LET valid(d) == filter_valid(d, s) IN SelectSeq(all_diagrams, valid)

(* the while loop is left and the complete diagrams are filtered *)
FilterDiagrams ==
    /\ pc = "while"
    /\ ~iter_flag
    /\ \E s \in Switches :
          /\ switches' = s
          /\ filtered_diagrams' = filtered_diagrams \o filter_loop(diagram_list(0), s)
    /\ pc' = "done"
    /\ UNCHANGED <<config, diagram_lists, iteration, iter_flag>>

Next == GrowthRound \/ FilterDiagrams

Spec == Init /\ [][Next]_vars

(* ===================== definitions used by the properties ============== *)
SeqToSet(s) == {s[i] : i \in 1..Len(s)}

(* every diagram held by the growth search in the current state *)
KeptDiagrams == SeqToSet(diagram_lists[1]) \cup SeqToSet(diagram_lists[2])

IsComplete(d) == d.iters_remaining = 0

(* the seed a diagram was grown from: its vertices without their lines *)
SeedKey(d) == [i \in 1..Len(d.vertices) |->
                 <<d.vertices[i].total_connections, d.vertices[i].kind,
                   d.vertices[i].label>>]

Capacities(d) == [i \in 1..Len(d.vertices) |-> d.vertices[i].total_connections]

UnorderedPair(line) ==
    IF line.vertex_start <= line.vertex_end
    THEN <<line.vertex_start, line.vertex_end>>
    ELSE <<line.vertex_end, line.vertex_start>>

(* the multiset of lines of a diagram, as a bag of unordered vertex pairs *)
RECURSIVE LineBagFrom(_, _)
LineBagFrom(lines, k) ==
    IF k > Len(lines) THEN EmptyBag
    ELSE SetToBag({UnorderedPair(lines[k])}) (+) LineBagFrom(lines, k + 1)

LineBag(d) == LineBagFrom(d.lines, 1)

RECURSIVE SumOver(_, _)
SumOver(S, f) ==
    IF S = {} THEN 0
    ELSE LET x == CHOOSE y \in S : TRUE IN f[x] + SumOver(S \ {x}, f)

(* brute-force reference: perfect matchings of the individual slots.  free *)
(* gives the unmatched slots per vertex; the lowest unmatched slot (on the *)
(* lowest vertex v that has one) is matched with each other unmatched slot *)
LowestFree(free) == CHOOSE v \in DOMAIN free :
                       free[v] > 0 /\ \A u \in DOMAIN free : free[u] > 0 => v <= u

Partners(free, v) ==
    {w \in DOMAIN free : w >= v /\ IF w = v THEN free[v] >= 2 ELSE free[w] >= 1}

SlotChoices(free, v, w) == IF w = v THEN free[v] - 1 ELSE free[w]

Matched(free, v, w) ==
    IF w = v THEN [free EXCEPT ![v] = @ - 2]
    ELSE [free EXCEPT ![v] = @ - 1, ![w] = @ - 1]

(* number of perfect matchings of the slots that induce the bag of lines *)
RECURSIVE CountMatchings(_, _)
CountMatchings(free, bag) ==
    IF \A v \in DOMAIN free : free[v] = 0
    THEN IF bag = EmptyBag THEN 1 ELSE 0
    ELSE LET v == LowestFree(free)
             ws == {w \in Partners(free, v) : BagIn(<<v, w>>, bag)}
         IN SumOver(ws, [w \in ws |->
                SlotChoices(free, v, w)
                  * CountMatchings(Matched(free, v, w), bag (-) SetToBag({<<v, w>>}))])

(* the bags of lines induced by the perfect matchings of the slots *)
RECURSIVE MatchingBags(_)
MatchingBags(free) ==
    IF \A v \in DOMAIN free : free[v] = 0
    THEN {EmptyBag}
    ELSE LET v == LowestFree(free)
         IN UNION {{m (+) SetToBag({<<v, w>>}) : m \in MatchingBags(Matched(free, v, w))}
                   : w \in Partners(free, v)}

(* number of line endpoints attached to a vertex, a self-loop counting twice *)
RECURSIVE EndpointsFrom(_, _, _)
EndpointsFrom(lines, vertex, k) ==
    IF k > Len(lines) THEN 0
    ELSE (IF lines[k].vertex_start = vertex THEN 1 ELSE 0)
         + (IF lines[k].vertex_end = vertex THEN 1 ELSE 0)
         + EndpointsFrom(lines, vertex, k + 1)

Endpoints(d, vertex) == EndpointsFrom(d.lines, vertex, 1)

(* ============================== C1 ===================================== *)
(* C1: the multiplier of every complete diagram produced by the growth     *)
(* search equals the number of perfect matchings of the seed's slots whose *)
(* induced multiset of lines equals the diagram's multiset of lines.        *)
C1_MultiplierCountsMatchings ==
    \A d \in KeptDiagrams :
        IsComplete(d) => d.multiplier = CountMatchings(Capacities(d), LineBag(d))

(* ============================== C2 ===================================== *)
(* C2: when the search has ended, every multiset of lines induced by a     *)
(* perfect matching of a seed's slots is the line multiset of at least one *)
(* complete diagram grown from that seed.                                   *)
C2_NoTopologyOmitted ==
    (pc = "done") =>
        \A k \in 1..Len(initial_diagrams) :
            \A m \in MatchingBags(Capacities(initial_diagrams[k])) :
                \E d \in SeqToSet(diagram_list(0)) :
                    /\ SeedKey(d) = SeedKey(initial_diagrams[k])
                    /\ LineBag(d) = m

(* ============================== C3 ===================================== *)
(* C3: no two complete diagrams grown from the same seed have the same     *)
(* multiset of lines.                                                       *)
C3_NoDuplicateLineSets ==
    \A n \in 1..2 :
        \A i, j \in 1..Len(diagram_lists[n]) :
            LET a == diagram_lists[n][i]
                b == diagram_lists[n][j]
            IN (i < j /\ IsComplete(a) /\ IsComplete(b) /\ SeedKey(a) = SeedKey(b))
                   => LineBag(a) # LineBag(b)

(* ============================== C4 ===================================== *)
(* C4: in every complete diagram every vertex is saturated: the number of  *)
(* line endpoints attached to it (a self-loop counting twice) equals its   *)
(* capacity, and so does its occupied-slot count.                           *)
C4_CompleteIsSaturated ==
    \A d \in KeptDiagrams :
        IsComplete(d) =>
            \A v \in 1..Len(d.vertices) :
                /\ Endpoints(d, v) = d.vertices[v].total_connections
                /\ Cardinality(d.vertices[v].lines) = d.vertices[v].total_connections

(* ============================== C5 ===================================== *)
(* C5: for every emitted diagram, twice the number of lines equals the sum *)
(* of the slot capacities of all its vertices.                              *)
C5_Handshake ==
    \A d \in SeqToSet(filtered_diagrams) :
        2 * Len(d.lines) = SumOver(DOMAIN Capacities(d), Capacities(d))

C5_Witness ==
    /\ pc = "done"
    /\ \E d \in SeqToSet(filtered_diagrams) :
          /\ Len(d.lines) >= 3
          /\ \E v \in 1..Len(d.vertices) : d.vertices[v].total_connections >= 2

(* ============================== C6 ===================================== *)
(* C6: every diagram kept at any step of the growth search, and every      *)
(* emitted diagram, has multiplier >= 1; no child of multiplier 0 is among *)
(* the children a growth step keeps.                                        *)
C6_Positivity ==
    /\ \A d \in KeptDiagrams \cup SeqToSet(filtered_diagrams) : d.multiplier >= 1
    /\ \A d \in KeptDiagrams :
          \A c \in SeqToSet(iterate(d).diagrams) : c.multiplier >= 1

(* a kept diagram one of whose candidates yields multiplier 0, next to an  *)
(* emitted diagram of multiplier > 1 *)
C6_DropWitness ==
    \E d \in KeptDiagrams :
        /\ d.iters_remaining > 0
        /\ d.multiplier > 1
        /\ \E e \in find_start_index(d)..d.vertex_count :
              find_start_index(d) >= 1
              /\ add_line(d, find_start_index(d), e).multiplier = 0

(* ============================== C7 ===================================== *)
(* the three predicates, stated over the diagram's line list *)
NoSelfLine(d) ==
    \A k \in 1..Len(d.lines) : d.lines[k].vertex_start # d.lines[k].vertex_end

RECURSIVE Closure(_, _)
Closure(d, S) ==
    LET T == S \cup {w \in 1..Len(d.vertices) :
                       \E k \in 1..Len(d.lines) : \E u \in S :
                          {d.lines[k].vertex_start, d.lines[k].vertex_end} = {u, w}}
    IN IF T = S THEN S ELSE Closure(d, T)

Component(d, v) == Closure(d, {v})

AllReachableFromOne(d) ==
    \E v \in 1..Len(d.vertices) : Component(d, v) = 1..Len(d.vertices)

EveryComponentHasExternal(d) ==
    \A v \in 1..Len(d.vertices) :
        \E w \in Component(d, v) : d.vertices[w].kind # "internal"

SatisfiesEnabled(d) ==
    /\ switches.normal_ordering => NoSelfLine(d)
    /\ switches.fully_connected => AllReachableFromOne(d)
    /\ switches.no_vacuum_pieces => EveryComponentHasExternal(d)

(* C7: for every combination of the switches a complete diagram is emitted *)
(* iff it satisfies every enabled predicate; the emitted diagrams are the  *)
(* unmodified complete diagrams in their order, and filtering the emitted  *)
(* sequence again removes nothing.                                          *)
C7_Filters ==
    (pc = "done") =>
        /\ filtered_diagrams = SelectSeq(diagram_list(0), SatisfiesEnabled)
        /\ filter_loop(filtered_diagrams, switches) = filtered_diagrams

C7_Witness ==
    /\ pc = "done"
    /\ switches.normal_ordering /\ switches.fully_connected /\ switches.no_vacuum_pieces
    /\ filtered_diagrams # <<>>
    /\ \E d \in SeqToSet(diagram_list(0)) : NoSelfLine(d) /\ ~AllReachableFromOne(d)
    /\ \E d \in SeqToSet(diagram_list(0)) : ~NoSelfLine(d)
    /\ \E d \in SeqToSet(filtered_diagrams) : Len(d.vertices) >= 3

(* ============================== C8 ===================================== *)
RECURSIVE MaxRemainingFrom(_, _)
MaxRemainingFrom(seeds, k) ==
    IF k > Len(seeds) THEN 0
    ELSE LET m == MaxRemainingFrom(seeds, k + 1)
         IN IF seeds[k].iters_remaining > m THEN seeds[k].iters_remaining ELSE m

(* maximum over the seeds of total slot count / 2 *)
MaxSeedRemaining == MaxRemainingFrom(initial_diagrams, 1)

C8_ChildDecrements ==
    \A d \in KeptDiagrams :
        d.iters_remaining > 0 =>
            \A c \in SeqToSet(iterate(d).diagrams) :
                c.iters_remaining = d.iters_remaining - 1

(* rounds of the while loop in which some diagram was unfinished *)
C8_RoundBound ==
    /\ iteration <= MaxSeedRemaining + 1
    /\ iter_flag => iteration <= MaxSeedRemaining

(* when the loop condition is false every surviving diagram is complete *)
C8_LoopExit ==
    ~iter_flag => \A d \in SeqToSet(diagram_list(0)) : IsComplete(d)

(* a step is one more round of the loop, or leaves the finished loop *)
C8_Step ==
    \/ iteration' = iteration + 1 /\ pc' = "while"
    \/ ~iter_flag /\ pc' = "done"

(* C8: the growth search terminates: every kept child has remaining one    *)
(* less than its parent; every step is one more round of the loop or the   *)
(* exit from it, at most (maximum over seeds of total slot count / 2)      *)
(* rounds are growth rounds, and the round after them finds every          *)
(* surviving diagram complete and stops.                                    *)
C8_Termination ==
    /\ [](C8_ChildDecrements /\ C8_RoundBound /\ C8_LoopExit)
    /\ [][C8_Step]_vars

C8_Witness ==
    /\ pc = "done"
    /\ MaxSeedRemaining >= 3
    /\ iteration = MaxSeedRemaining + 1
    /\ diagram_list(0) # <<>>

(* ============================== C9 ===================================== *)
Saturated(vertex) == Cardinality(vertex.lines) >= vertex.total_connections

FreeSlots(vertex) == vertex.total_connections - Cardinality(vertex.lines)

HasPivot(d) == \E v \in 1..Len(d.vertices) : ~Saturated(d.vertices[v])

(* lowest-index unsaturated vertex *)
Pivot(d) == CHOOSE v \in 1..Len(d.vertices) :
               /\ ~Saturated(d.vertices[v])
               /\ \A u \in 1..(v - 1) : Saturated(d.vertices[u])

(* among the children kept by a growth step from d, those for candidate c *)
KeptFor(children, d, c) ==
    {x \in children :
        /\ Len(x.lines) = Len(d.lines) + 1
        /\ SubSeq(x.lines, 1, Len(d.lines)) = d.lines
        /\ x.lines[Len(x.lines)] = Line(Pivot(d), c)}

GrowthStepRule(d, Discarded(_, _)) ==
    LET children == SeqToSet(iterate(d).diagrams)
    IN \A c \in Pivot(d)..Len(d.vertices) :
          LET kept == KeptFor(children, d, c)
          IN IF Discarded(d, c)
             THEN kept = {}
             ELSE /\ Cardinality(kept) = 1
                  /\ \A x \in kept :
                        /\ x.iters_remaining = d.iters_remaining - 1
                        /\ x.multiplier >= 1

DiscardedAsClaimed(d, c) ==
    \/ Saturated(d.vertices[c])
    \/ c = Pivot(d) /\ d.vertices[c].total_connections = 1

DiscardedOneFreeSlot(d, c) ==
    \/ Saturated(d.vertices[c])
    \/ c = Pivot(d) /\ FreeSlots(d.vertices[c]) = 1

(* C9 as stated: the child for candidate c >= pivot is discarded exactly   *)
(* when the candidate was already saturated or it is a self-loop on a      *)
(* capacity-1 vertex; otherwise it is kept with one more line and          *)
(* remaining decremented by one.                                            *)
C9_AsClaimed ==
    \A d \in KeptDiagrams :
        (d.iters_remaining > 0 /\ HasPivot(d)) => GrowthStepRule(d, DiscardedAsClaimed)

(* C9 amended: the child for candidate c >= pivot is discarded exactly     *)
(* when the candidate was already saturated or it is a self-loop on a      *)
(* pivot that has exactly one free slot left (of any capacity); otherwise  *)
(* it is kept with one more line and remaining decremented by one.          *)
C9_Amended ==
    \A d \in KeptDiagrams :
        (d.iters_remaining > 0 /\ HasPivot(d)) => GrowthStepRule(d, DiscardedOneFreeSlot)

(* a pivot of capacity >= 2 with one free slot, a saturated later          *)
(* candidate and a kept later candidate, in one growth step *)
C9_Witness ==
    \E d \in KeptDiagrams :
        /\ d.iters_remaining > 0 /\ HasPivot(d)
        /\ d.vertices[Pivot(d)].total_connections >= 2
        /\ FreeSlots(d.vertices[Pivot(d)]) = 1
        /\ KeptFor(SeqToSet(iterate(d).diagrams), d, Pivot(d)) = {}
        /\ \E c \in (Pivot(d) + 1)..Len(d.vertices) :
              KeptFor(SeqToSet(iterate(d).diagrams), d, c) # {}

(* ============================== C10 ==================================== *)
(* C10: every kept diagram with remaining > 0 has an unsaturated pivot and *)
(* at least one candidate of index >= pivot whose child is kept; when the  *)
(* search has ended every seed has at least one complete diagram.           *)
C10_NoDeadEnd ==
    /\ \A d \in KeptDiagrams :
          d.iters_remaining > 0 =>
              /\ HasPivot(d)
              /\ LET children == SeqToSet(iterate(d).diagrams)
                 IN \E c \in Pivot(d)..Len(d.vertices) : KeptFor(children, d, c) # {}
    /\ (pc = "done") =>
          LET completed == {SeedKey(d) : d \in {x \in SeqToSet(diagram_list(0)) :
                                                   IsComplete(x)}}
          IN \A k \in 1..Len(initial_diagrams) :
                SeedKey(initial_diagrams[k]) \in completed

(* the search has ended from several seeds, one of them with a pivot that  *)
(* can only self-connect *)
C10_Witness ==
    /\ pc = "done"
    /\ Len(initial_diagrams) >= 3
    /\ \E k \in 1..Len(initial_diagrams) :
          /\ Len(initial_diagrams[k].vertices) = 1
          /\ initial_diagrams[k].iters_remaining >= 1

====
